---- MODULE Spec2Model ----
(***************************************************************************)
(* Model of the planning core of the activity planner: the weekly quota    *)
(* gate, the readiness resolver, the prompt's date keys, the completion    *)
(* response normalizer and the mock (heuristic) plan, as implemented by    *)
(* generate_plan and its helpers in routes/planning.py, together with the  *)
(* routes that write the profile fields generate_plan reads.               *)
(*                                                                         *)
(* Dates are proleptic Gregorian ordinals (datetime.date.toordinal()).     *)
(* A formatted date is the tuple of the fields strftime prints.            *)
(***************************************************************************)
EXTENDS Integers, Sequences, FiniteSets, TLC

VARIABLES
    today,       \* the server's calendar date (date.today())
    user,        \* the persisted row of current_user
    activities,  \* the persisted Activity rows of the user, in query order
    appointments, \* the persisted Appointment rows of the user
    calendar,    \* the events the application exported to the Google calendar
    ledger,      \* the generate requests in flight, and the plans delivered
    last         \* the most recent step: the request, the row before it, the response

vars == <<today, user, activities, appointments, calendar, ledger, last>>

(***************************************************************************)
(* Python values                                                           *)
(***************************************************************************)
\* None in a nullable Integer / Date column or local
None == -1

\* float('inf'): above every value of the Integer counter column
Inf == 2147483647

\* the weekly limit of the free tier (and the default of tier_limits.get)
FreeLimit == 3

(***************************************************************************)
(* Bounds                                                                  *)
(***************************************************************************)
MaxDays == 4      \* day advances explored after the first day
MaxCount == 4     \* generations explored for an unlimited tier
MaxActs == 1      \* activities on file
MaxApts == 2      \* appointments on file
MaxWorkers == 2   \* generate requests of the user served at the same time
MaxEvents == 3    \* events the calendar holds
MaxPlanActs == 3  \* activities on file where the heuristic plan is explored
PromptDays == 75  \* first days explored for the prompt's date keys

(***************************************************************************)
(* Calendar: date.toordinal / date.fromordinal / date.weekday / strftime   *)
(***************************************************************************)
IsLeap(y) == (y % 4 = 0 /\ y % 100 # 0) \/ y % 400 = 0

DaysBeforeYear(y) == (y - 1) * 365 + (y - 1) \div 4 - (y - 1) \div 100 + (y - 1) \div 400

DaysInMonth(y, m) ==
    IF m = 2 THEN (IF IsLeap(y) THEN 29 ELSE 28)
    ELSE IF m \in {4, 6, 9, 11} THEN 30 ELSE 31

\* days of the year before the first of month m
DaysBeforeMonth(y, m) ==
    <<0, 31, 59, 90, 120, 151, 181, 212, 243, 273, 304, 334>>[m]
        + (IF m > 2 /\ IsLeap(y) THEN 1 ELSE 0)

\* date(y, m, d).toordinal()
Ordinal(y, m, d) == DaysBeforeYear(y) + DaysBeforeMonth(y, m) + d

\* date.fromordinal(n) as <<year, month, day>>
FromOrdinal(n) ==
    LET n0   == n - 1
        n400 == n0 \div 146097
        r400 == n0 % 146097
        n100 == r400 \div 36524
        r100 == r400 % 36524
        n4   == r100 \div 1461
        r4   == r100 % 1461
        n1   == r4 \div 365
        r1   == r4 % 365
        y    == n400 * 400 + 1 + n100 * 100 + n4 * 4 + n1
    IN IF n1 = 4 \/ n100 = 4
       THEN <<y - 1, 12, 31>>
       ELSE LET m == CHOOSE k \in 1..12 :
                         /\ DaysBeforeMonth(y, k) <= r1
                         /\ r1 < DaysBeforeMonth(y, k) + DaysInMonth(y, k)
            IN <<y, m, r1 - DaysBeforeMonth(y, m) + 1>>

\* date.weekday(): Monday is 0
Weekday(n) == (n + 6) % 7

DayNames == <<"Monday", "Tuesday", "Wednesday", "Thursday", "Friday", "Saturday", "Sunday">>
MonthAbbr == <<"Jan", "Feb", "Mar", "Apr", "May", "Jun",
               "Jul", "Aug", "Sep", "Oct", "Nov", "Dec">>

\* the first day explored: Friday 2027-12-24
StartDay == Ordinal(2027, 12, 24)

\* the days a date of the model can fall on, each converted once
Days == (StartDay - 2)..(StartDay + PromptDays + 8)
YmdOf == [n \in Days |-> FromOrdinal(n)]
WeekdayOf == [n \in Days |-> Weekday(n)]

\* strftime('%Y-%m-%d')
IsoDate(n) == YmdOf[n]

\* strftime('%A, %b %d')
DayLabel(n) == <<DayNames[WeekdayOf[n] + 1], MonthAbbr[YmdOf[n][2]], YmdOf[n][3]>>

(***************************************************************************)
(* The user row (models.User) and the Activity rows                        *)
(***************************************************************************)
\* json.dumps(...) stored in last_generated_schedule; <<>> is NULL
NoSchedule == <<>>

NewUser(tier) ==
    [ subscription_tier          |-> tier,
      has_paid_before            |-> FALSE,
      plan_generations_count     |-> 0,
      plan_generation_reset_date |-> None,
      last_generated_schedule    |-> NoSchedule,
      last_completed_activity    |-> "",
      current_injuries           |-> "",
      additional_information     |-> "",
      fitbit_connected           |-> FALSE,
      fitbit_readiness_score     |-> None,
      fitbit_sleep_score         |-> None,
      oura_connected             |-> FALSE,
      oura_readiness_score       |-> None,
      manual_readiness_score     |-> None,
      manual_sleep_score         |-> None,
      manual_score_date          |-> None ]

\* no generate request in flight, no plan delivered yet
IdleSession == [pc |-> "idle", count |-> None]

NoLedger == [sessions |-> [w \in 1..MaxWorkers |-> IdleSession], delivered |-> 0]

\* the tiers the routes write, and one value no route writes (tier_limits.get default)
KnownTiers == {"free_tier", "paid_tier", "admin"}
Tiers == KnownTiers \cup {"legacy_tier"}

\* the add_activity form: a name and an intensity
ActivityForms ==
    { [name |-> "",     intensity |-> "High"],
      [name |-> "Run",  intensity |-> "High"],
      [name |-> "Yoga", intensity |-> "Gentle"] }

ValidIntensities == {"Low", "Medium", "High", "Very High"}

ActivityIds(acts) == {acts[i].id : i \in 1..Len(acts)}

\* the largest id in use (0 when there is none)
MaxId(ids) == IF ids = {} THEN 0 ELSE CHOOSE v \in ids : \A w \in ids : w <= v

\* [a for a in activities if keep(a)]
RECURSIVE FilterActs(_, _)
FilterActs(acts, excluded) ==
    IF acts = <<>> THEN <<>>
    ELSE IF Head(acts).id \in excluded
         THEN FilterActs(Tail(acts), excluded)
         ELSE <<Head(acts)>> \o FilterActs(Tail(acts), excluded)

(***************************************************************************)
(* Quota gate: generate_plan, lines 123-156                                *)
(***************************************************************************)
\* the rollover test without its second half: a stored date is never stale
NeedsRollover_OnlyMissing(u, t) == u.plan_generation_reset_date = None

\* plan_generation_reset_date is None or plan_generation_reset_date < today
NeedsRollover(u, t) ==
    u.plan_generation_reset_date = None \/ u.plan_generation_reset_date < t

\* next_reset without the full week of a Monday: days_until_monday of line
\* 129 alone, which is 0 on a Monday
NextReset_NoFullWeek(t, reset) == t + ((7 - WeekdayOf[t]) % 7)

\* next_reset of lines 129-132
NextReset(t, reset) ==
    LET d0 == (7 - WeekdayOf[t]) % 7
        d1 == IF d0 = 0 /\ reset # t THEN 7 ELSE d0
    IN t + (IF d1 > 0 THEN d1 ELSE 7)

\* lines 133-134
Rollover(u, t) ==
    [u EXCEPT !.plan_generation_reset_date = NextReset(t, u.plan_generation_reset_date),
              !.plan_generations_count = 0]

\* current_user.subscription_tier or 'free_tier'
UserTier(u) == IF u.subscription_tier = "" THEN "free_tier" ELSE u.subscription_tier

\* tier_limits.get(user_tier, 3)
TierLimit(tier) ==
    CASE tier = "free_tier" -> FreeLimit
      [] tier = "paid_tier" -> Inf
      [] tier = "admin"     -> Inf
      [] OTHER              -> FreeLimit

\* the limit check with > for >=
LimitReached_Above(u) == u.plan_generations_count > TierLimit(UserTier(u))

\* plan_generations_count >= limit
LimitReached(u) == u.plan_generations_count >= TierLimit(UserTier(u))

\* (plan_generation_reset_date - today).days
DaysUntilReset(u, t) == u.plan_generation_reset_date - t

(***************************************************************************)
(* Request body: generate_plan, lines 163-188                              *)
(***************************************************************************)
\* a JSON value of a free-text key: a string, or a non-string such as 42
NonString == "#42"
Unbound == "#unbound"
BodyTexts == {"", "  ", " knee ", NonString}

\* str.strip()
Strip(s) == CASE s = "  " -> "" [] s = " knee " -> "knee" [] OTHER -> s

\* the try block of lines 164-176 up to the profile assignment, and its
\* except clause: .strip() of a non-string raises AttributeError, which
\* leaves last_activity unbound unless it was assigned before the raise
ParseBody(body) ==
    IF body.extra_info = NonString \/ body.last_activity = NonString
       \/ body.injuries_pains = NonString
    THEN [ raised         |-> TRUE,
           extra_info     |-> "",
           last_activity  |-> IF body.extra_info # NonString /\ body.last_activity # NonString
                              THEN Strip(body.last_activity) ELSE Unbound,
           injuries_pains |-> "",
           allow_multiple |-> FALSE,
           excluded       |-> {} ]
    ELSE [ raised         |-> FALSE,
           extra_info     |-> Strip(body.extra_info),
           last_activity  |-> Strip(body.last_activity),
           injuries_pains |-> Strip(body.injuries_pains),
           allow_multiple |-> body.allow_multiple,
           excluded       |-> body.excluded ]

\* lines 173-175: x if x else None
SaveContext(u, b) ==
    [u EXCEPT !.last_completed_activity = b.last_activity,
              !.current_injuries = b.injuries_pains,
              !.additional_information = b.extra_info]

(***************************************************************************)
(* Weather input: the outcome of lines 190-198.  A forecast is the list    *)
(* get_weather_forecast returns: seven entries, or the single minimal      *)
(* entry of its missing-daily-block branch whose fields are None.          *)
(***************************************************************************)
ForecastDay(p) ==
    [ precipitation |-> p, temp_max |-> 18, is_today |-> FALSE,
      next3_precip |-> None, next3_rain |-> None, next3_snow |-> None ]

\* helpers.py, lines 163-187
DegenerateForecast ==
    << [ precipitation |-> None, temp_max |-> None, is_today |-> TRUE,
         next3_precip |-> None, next3_rain |-> None, next3_snow |-> None ] >>

\* helpers.py, lines 218-323: seven entries, the first flagged is_today
FullForecast(ps) ==
    [i \in 1..7 |-> [ForecastDay(ps[i]) EXCEPT !.is_today = (i = 1)]]

\* helpers.py, lines 259-285 and 323-325: the sums of the next three hours
\* attached to the entry of today when the response has hourly data
WithNext3(forecast, n) ==
    [i \in 1..Len(forecast) |->
        IF forecast[i].is_today
        THEN [forecast[i] EXCEPT !.next3_precip = n.precip,
                                 !.next3_rain = n.rain,
                                 !.next3_snow = n.snow]
        ELSE forecast[i]]

(***************************************************************************)
(* get_weather_forecast, helpers.py lines 215-330: the daily block of the  *)
(* provider formatted day by day.  Wind speeds and precipitation sums are  *)
(* decimal numbers, kept here in thousandths: 14600 is 14.6.               *)
(***************************************************************************)
\* is_windy thresholds in mph (helpers.py, line 252)
WindySpeed == 15
WindyGusts == 25

\* round(n / d) for n >= 0: Python rounds a half to the even neighbour
RoundDiv(n, d) ==
    LET q == n \div d
        r == n % d
    IN IF 2 * r < d THEN q
       ELSE IF 2 * r > d THEN q + 1
       ELSE IF q % 2 = 0 THEN q ELSE q + 1

\* round(x, 2) of x thousandths, in thousandths
Round2(x) == 10 * RoundDiv(x, 10)

\* round(x * 0.1, 2) of x thousandths, in thousandths
Round2OfTenth(x) == 10 * RoundDiv(x, 100)

\* x or 0
OrZero(x) == IF x = None THEN 0 ELSE x

\* Open-Meteo weather codes of snow and snow showers (line 255)
SnowCodes == {71, 73, 75, 77, 85, 86}

\* one day with the windy test made on the rounded values that are reported
FormatDay_WindyAfterRounding(d, unit, is_today) ==
    LET snowfall_sum_raw == OrZero(d.snowfall_sum)
        rain_sum_raw     == OrZero(d.rain_sum)
        snowfall_sum     == Round2(snowfall_sum_raw)
        rain_sum         == IF unit = "F" THEN Round2(rain_sum_raw)
                            ELSE Round2OfTenth(rain_sum_raw)
        wind_speed       == OrZero(d.wind_speed_10m_max)
        wind_gusts       == OrZero(d.wind_gusts_10m_max)
        precipitation    == d.precipitation_probability_max
    IN [ precipitation   |-> precipitation,
         temp_max        |-> 18,
         is_today        |-> is_today,
         snowfall_sum    |-> snowfall_sum,
         rain_sum        |-> rain_sum,
         precip_unit     |-> IF unit = "F" THEN "in" ELSE "cm",
         is_wet_ground   |-> (precipitation # None /\ precipitation >= 40) \/ rain_sum > 0,
         is_snowy_ground |-> d.weathercode \in SnowCodes \/ snowfall_sum > 0,
         wind_speed      |-> RoundDiv(wind_speed, 1000),
         wind_gusts      |-> RoundDiv(wind_gusts, 1000),
         is_windy        |-> \/ RoundDiv(wind_speed, 1000) >= WindySpeed
                             \/ RoundDiv(wind_gusts, 1000) >= WindyGusts ]

\* one day with the rain sum of unit C left in millimetres
FormatDay_RainInMm(d, unit, is_today) ==
    LET snowfall_sum_raw == OrZero(d.snowfall_sum)
        rain_sum_raw     == OrZero(d.rain_sum)
        snowfall_sum     == Round2(snowfall_sum_raw)
        rain_sum         == Round2(rain_sum_raw)
        wind_speed       == OrZero(d.wind_speed_10m_max)
        wind_gusts       == OrZero(d.wind_gusts_10m_max)
        precipitation    == d.precipitation_probability_max
    IN [ precipitation   |-> precipitation,
         temp_max        |-> 18,
         is_today        |-> is_today,
         snowfall_sum    |-> snowfall_sum,
         rain_sum        |-> rain_sum,
         precip_unit     |-> IF unit = "F" THEN "in" ELSE "cm",
         is_wet_ground   |-> (precipitation # None /\ precipitation >= 40) \/ rain_sum > 0,
         is_snowy_ground |-> d.weathercode \in SnowCodes \/ snowfall_sum > 0,
         wind_speed      |-> RoundDiv(wind_speed, 1000),
         wind_gusts      |-> RoundDiv(wind_gusts, 1000),
         is_windy        |-> \/ wind_speed >= WindySpeed * 1000
                             \/ wind_gusts >= WindyGusts * 1000 ]

\* lines 215-328: the entry of one day of the daily block
FormatDay(d, unit, is_today) ==
    LET snowfall_sum_raw == OrZero(d.snowfall_sum)
        rain_sum_raw     == OrZero(d.rain_sum)
        snowfall_sum     == Round2(snowfall_sum_raw)
        rain_sum         == IF unit = "F" THEN Round2(rain_sum_raw)
                            ELSE Round2OfTenth(rain_sum_raw)
        wind_speed       == OrZero(d.wind_speed_10m_max)
        wind_gusts       == OrZero(d.wind_gusts_10m_max)
        precipitation    == d.precipitation_probability_max
    IN [ precipitation   |-> precipitation,
         temp_max        |-> 18,
         is_today        |-> is_today,
         snowfall_sum    |-> snowfall_sum,
         rain_sum        |-> rain_sum,
         precip_unit     |-> IF unit = "F" THEN "in" ELSE "cm",
         is_wet_ground   |-> (precipitation # None /\ precipitation >= 40) \/ rain_sum > 0,
         is_snowy_ground |-> d.weathercode \in SnowCodes \/ snowfall_sum > 0,
         wind_speed      |-> RoundDiv(wind_speed, 1000),
         wind_gusts      |-> RoundDiv(wind_gusts, 1000),
         is_windy        |-> \/ wind_speed >= WindySpeed * 1000
                             \/ wind_gusts >= WindyGusts * 1000 ]

\* lines 163-187: the single entry returned when the daily block is missing
FallbackDay(unit) ==
    [ precipitation   |-> None,
      temp_max        |-> None,
      is_today        |-> TRUE,
      snowfall_sum    |-> None,
      rain_sum        |-> None,
      precip_unit     |-> IF unit = "F" THEN "in" ELSE "cm",
      is_wet_ground   |-> None,
      is_snowy_ground |-> None,
      wind_speed      |-> None,
      wind_gusts      |-> None,
      is_windy        |-> FALSE ]

\* the forecast list of get_weather_forecast for a daily block of seven
\* days, or for a response without one
GetWeatherForecast(daily, unit) ==
    IF daily = <<>> THEN <<FallbackDay(unit)>>
    ELSE [i \in 1..7 |-> FormatDay(daily[i], unit, i = 1)]

\* weather_forecast is None: no location, or the resolver returned None
NoForecast == <<>>

(***************************************************************************)
(* Readiness resolver: generate_plan, lines 214-229                        *)
(***************************************************************************)
\* truth value of an Optional[int]
Truthy(x) == x # None /\ x # 0

\* the resolver with fresh manual scores ahead of the trackers
ResolveReadiness_ManualFirst(u, nowDate) ==
    IF u.manual_readiness_score # None /\ u.manual_score_date # None
       /\ u.manual_score_date >= nowDate
    THEN [readiness_score |-> u.manual_readiness_score, sleep_score |-> u.manual_sleep_score]
    ELSE IF u.fitbit_connected
    THEN [readiness_score |-> u.fitbit_readiness_score, sleep_score |-> u.fitbit_sleep_score]
    ELSE [readiness_score |-> IF u.oura_connected THEN u.oura_readiness_score ELSE None,
          sleep_score |-> None]

\* lines 214-229
ResolveReadiness(u, nowDate) ==
    LET r1 == IF u.fitbit_connected THEN u.fitbit_readiness_score
              ELSE IF u.oura_connected /\ Truthy(u.oura_readiness_score)
                   THEN u.oura_readiness_score
                   ELSE None
        s1 == IF u.fitbit_connected THEN u.fitbit_sleep_score ELSE None
        manual == /\ r1 = None
                  /\ u.manual_readiness_score # None
                  /\ u.manual_score_date # None
                  /\ u.manual_score_date >= nowDate
    IN [ readiness_score |-> IF manual THEN u.manual_readiness_score ELSE r1,
         sleep_score     |-> IF manual THEN u.manual_sleep_score ELSE s1 ]

(***************************************************************************)
(* Prompt: _build_planning_prompt, lines 351-357 and 528-529               *)
(***************************************************************************)
\* date keys that start from tomorrow: range(1, 8) for range(7)
DateKeys_FromTomorrow(now) == [i \in 1..7 |-> <<IsoDate(now + i), DayLabel(now + i)>>]

\* date_keys: (date_key, day_name) for now + 0 .. now + 6 days
DateKeys(now) == [i \in 1..7 |-> <<IsoDate(now + (i - 1)), DayLabel(now + (i - 1))>>]

\* lines 463-468: the interpretation appended to the readiness line
ReadinessBand(score) ==
    IF score < 30 THEN "Low" ELSE IF score < 65 THEN "Moderate" ELSE "High"

\* the moderate band reaching up to and including 85: <= 85 for < 85
SleepBand_ThroughEightyFive(score) ==
    IF score < 70 THEN "Poor" ELSE IF score <= 85 THEN "Moderate" ELSE "Excellent"

\* lines 472-477: the interpretation appended to the sleep line
SleepBand(score) ==
    IF score < 70 THEN "Poor" ELSE IF score < 85 THEN "Moderate" ELSE "Excellent"

NoBiometric == [scope |-> <<>>, lines |-> <<>>, today_only |-> FALSE]

\* lines 458-479: the biometric section; the tests are Python truth tests
\* of the scores, the header names date_keys[0][1], and the closing
\* instruction says the scores are for today only
BiometricSection(date_keys, readiness_score, sleep_score) ==
    IF Truthy(readiness_score) \/ Truthy(sleep_score)
    THEN [ scope |-> date_keys[1][2],
           lines |->
               (IF Truthy(readiness_score)
                THEN <<[kind |-> "readiness", score |-> readiness_score,
                        band |-> ReadinessBand(readiness_score)]>>
                ELSE <<>>)
               \o
               (IF Truthy(sleep_score)
                THEN <<[kind |-> "sleep", score |-> sleep_score,
                        band |-> SleepBand(sleep_score)]>>
                ELSE <<>>),
           today_only |-> TRUE ]
    ELSE NoBiometric

\* lines 343-349: the appointments whose stored date lies between the date
\* of now and six days later, ordered by date (rows of one date in id order)
RECURSIVE OrderByDate(_)
OrderByDate(rows) ==
    IF rows = {} THEN <<>>
    ELSE LET first == CHOOSE x \in rows :
                          \A y \in rows : \/ x.date < y.date
                                           \/ (x.date = y.date /\ x.id <= y.id)
         IN <<first>> \o OrderByDate(rows \ {first})

QueryAppointments(now) ==
    LET end_date == now + 6
    IN OrderByDate({a \in appointments : a.date >= now /\ a.date <= end_date})

\* lines 369-381: one line per appointment of the query, with its date
AppointmentLines(rows) ==
    [i \in 1..Len(rows) |-> [id |-> rows[i].id, date |-> rows[i].date]]

\* day.get(key) of a Python dict: None when the key is missing
DictGet(day, key) == IF key \in DOMAIN day THEN day[key] ELSE None

\* lines 424-430: the short-term part of the line of one forecast entry,
\* the empty string when there is none
ShortTerm(day) ==
    IF day.is_today
    THEN LET nprecip == DictGet(day, "next3_precip_mm")
             nrain   == DictGet(day, "next3_rain_mm")
             nsnow   == DictGet(day, "next3_snow_mm")
         IN IF nprecip # None
            THEN <<"next 3h", nprecip, OrZero(nrain), OrZero(nsnow)>>
            ELSE <<>>
    ELSE <<>>

\* lines 398-448: one forecast line per entry of weather_forecast, none
\* when weather_forecast is None
ForecastLines(weather_forecast) ==
    [i \in 1..Len(weather_forecast) |->
        [ precipitation |-> weather_forecast[i].precipitation,
          short_term    |-> ShortTerm(weather_forecast[i]) ]]

\* the parts of the prompt the date keys and the scores decide: the TODAY
\* line of the rules, the output-schema block, one line per date key in
\* list order, and the biometric section
BuildPlanningPrompt(now, weather_forecast, readiness_score, sleep_score) ==
    LET date_keys == DateKeys(now)
    IN [ today_label |-> date_keys[1][2],
         schema      |-> [i \in 1..Len(date_keys) |->
                             [date_key |-> date_keys[i][1], day_name |-> date_keys[i][2]]],
         appointments |-> AppointmentLines(QueryAppointments(now)),
         forecast    |-> ForecastLines(weather_forecast),
         biometric   |-> BiometricSection(date_keys, readiness_score, sleep_score) ]

NoPrompt ==
    [ today_label |-> <<>>, schema |-> <<>>, appointments |-> <<>>,
      forecast |-> <<>>, biometric |-> NoBiometric ]

(***************************************************************************)
(* Mock plan: _generate_mock_plan, lines 556-592                           *)
(***************************************************************************)
\* activity.intensity or 'Moderate'
IntensityOrModerate(a) == IF a.intensity = "" THEN "Moderate" ELSE a.intensity

\* the entry of day index i with >= 60 for > 60
MockEntry_AtSixty(acts, now, forecast, i) ==
    LET day_name == DayLabel(now + i)
        activity == acts[(i % Len(acts)) + 1]
    IN IF forecast # <<>> /\ i < Len(forecast)
       THEN LET weather == forecast[i + 1]
            IN IF weather.precipitation >= 60
               THEN [ day_name |-> day_name,
                      activity |-> "Indoor Yoga or Rest",
                      notes    |-> <<"High precipitation", weather.precipitation, "Stay indoors">>,
                      weather  |-> <<weather.temp_max, weather.precipitation>> ]
               ELSE [ day_name |-> day_name,
                      activity |-> activity.name,
                      notes    |-> <<"Good weather for outdoor activities", IntensityOrModerate(activity)>>,
                      weather  |-> <<weather.temp_max, weather.precipitation>> ]
       ELSE [ day_name |-> day_name,
              activity |-> IF i % 3 # 0 THEN activity.name ELSE "Rest Day",
              notes    |-> <<"Scheduled based on your activity preferences">>,
              weather  |-> <<"No weather data">> ]

\* the entry of day index i (0-based)
MockEntry(acts, now, forecast, i) ==
    LET day_name == DayLabel(now + i)
        activity == acts[(i % Len(acts)) + 1]
    IN IF forecast # <<>> /\ i < Len(forecast)
       THEN LET weather == forecast[i + 1]
            IN IF weather.precipitation > 60
               THEN [ day_name |-> day_name,
                      activity |-> "Indoor Yoga or Rest",
                      notes    |-> <<"High precipitation", weather.precipitation, "Stay indoors">>,
                      weather  |-> <<weather.temp_max, weather.precipitation>> ]
               ELSE [ day_name |-> day_name,
                      activity |-> activity.name,
                      notes    |-> <<"Good weather for outdoor activities", IntensityOrModerate(activity)>>,
                      weather  |-> <<weather.temp_max, weather.precipitation>> ]
       ELSE [ day_name |-> day_name,
              activity |-> IF i % 3 # 0 THEN activity.name ELSE "Rest Day",
              notes    |-> <<"Scheduled based on your activity preferences">>,
              weather  |-> <<"No weather data">> ]

\* None > 60 raises TypeError; i % len(activities) raises ZeroDivisionError
\* when the list is empty
MockRaises(acts, forecast) ==
    \/ \E i \in 0..6 : forecast # <<>> /\ i < Len(forecast) /\ forecast[i + 1].precipitation = None
    \/ acts = <<>>

\* mock_plan: a dict keyed by the date keys; a later day overwrites an
\* earlier one under the same key
GenerateMockPlan(acts, now, forecast) ==
    LET keys == [i \in 0..6 |-> IsoDate(now + i)]
    IN [ raised |-> MockRaises(acts, forecast),
         plan   |-> IF MockRaises(acts, forecast) THEN <<>>
                    ELSE [k \in {keys[i] : i \in 0..6} |->
                             MockEntry(acts, now, forecast,
                                 CHOOSE j \in 0..6 :
                                     keys[j] = k /\ \A j2 \in (j + 1)..6 : keys[j2] # k)] ]

(***************************************************************************)
(* Response normalizer: generate_plan, lines 277-291.  A completion text   *)
(* is its list of lines (the text is the lines joined by newlines); a line *)
(* is a fence, a fence with a tag, one JSON object, prose, or empty.       *)
(***************************************************************************)
\* FENCE stands for the three-backquote marker
Fence == "FENCE"
FenceJson == "FENCEjson"
FenceTagged == "FENCEpython"
JsonA == "{\"a\":1}"
JsonB == "{\"b\":2}"
Prose == "Here is your plan"
Blank == ""

JsonLines == {JsonA, JsonB}
LineTokens == {Fence, FenceJson, FenceTagged, JsonA, JsonB, Prose, Blank}

\* json.loads of one JSON line
JsonValue(line) == IF line = JsonA THEN [a |-> 1] ELSE [b |-> 2]

\* leading blank lines that a newline follows (\s* before the final \n)
RECURSIVE DropInnerBlank(_)
DropInnerBlank(ls) ==
    IF Len(ls) >= 2 /\ Head(ls) = Blank THEN DropInnerBlank(Tail(ls)) ELSE ls

\* line 287 with a pattern that knows no tag: only a bare fence line opens
RECURSIVE StripOpenFence_BareOnly(_)
StripOpenFence_BareOnly(ls) ==
    IF Len(ls) <= 1 THEN ls
    ELSE IF Head(ls) = Fence
         THEN StripOpenFence_BareOnly(DropInnerBlank(Tail(ls)))
         ELSE <<Head(ls)>> \o StripOpenFence_BareOnly(Tail(ls))

\* line 287: re.sub of an opening fence line, bare or tagged json, with the
\* whitespace after it up to and including a newline, at every line start
RECURSIVE StripOpenFence(_)
StripOpenFence(ls) ==
    IF Len(ls) <= 1 THEN ls
    ELSE IF Head(ls) \in {Fence, FenceJson}
         THEN StripOpenFence(DropInnerBlank(Tail(ls)))
         ELSE <<Head(ls)>> \o StripOpenFence(Tail(ls))

\* all leading blank lines (\s* before $)
RECURSIVE DropBlank(_)
DropBlank(ls) ==
    IF ls # <<>> /\ Head(ls) = Blank THEN DropBlank(Tail(ls)) ELSE ls

\* the lines after the first one: each is preceded by a newline
RECURSIVE StripCloseFenceRest(_)
StripCloseFenceRest(ls) ==
    IF ls = <<>> THEN <<>>
    ELSE IF Head(ls) = Fence
         THEN StripCloseFenceRest(DropBlank(Tail(ls)))
         ELSE <<Head(ls)>> \o StripCloseFenceRest(Tail(ls))

\* line 288: re.sub of a newline, a bare fence and the whitespace after it
\* up to a line end
StripCloseFence(ls) ==
    IF Len(ls) <= 1 THEN ls ELSE <<Head(ls)>> \o StripCloseFenceRest(Tail(ls))

RECURSIVE DropTrailingBlank(_)
DropTrailingBlank(ls) ==
    IF ls # <<>> /\ ls[Len(ls)] = Blank
    THEN DropTrailingBlank(SubSeq(ls, 1, Len(ls) - 1))
    ELSE ls

\* str.strip() of a text: <<>> is the empty string
StripText(ls) == DropTrailingBlank(DropBlank(ls))

\* cleaned_text of lines 287-289
CleanText(ls) == StripText(StripCloseFence(StripOpenFence(ls)))

\* json.loads(cleaned_text): one JSON object and nothing else
JsonLoads(ls) ==
    IF Len(ls) = 1 /\ ls[1] \in JsonLines
    THEN [ok |-> TRUE, value |-> JsonValue(ls[1])]
    ELSE [ok |-> FALSE, value |-> <<>>]

\* the emptiness test without .strip(): not plan_text
IsEmptyText_NoStrip(completion) ==
    completion.result = "none" \/ completion.text = <<>>

\* not plan_text or not plan_text.strip()
IsEmptyText(completion) ==
    completion.result = "none" \/ StripText(completion.text) = <<>>

(***************************************************************************)
(* generate_plan, lines 117-317.  A request is                             *)
(*   fail       the db.session.commit() calls that raise, by name          *)
(*   body       the JSON body                                              *)
(*   weather    weather_forecast (lines 190-198)                           *)
(*   shift      now.date() - date.today(): the location's time zone        *)
(*   client     whether openai_client is configured                        *)
(*   completion what chat.completions.create does: raises, or returns a    *)
(*              message whose content is None or a text                    *)
(* The result is the response, the row as persisted when the request ends  *)
(* (an uncommitted session is discarded with the request), and the values  *)
(* the handler computed on the way.                                        *)
(***************************************************************************)
Commits == {"rollover", "context", "plan", "text"}

\* json.dumps(value)
JsonDumps(value) == <<"json", value>>

Reply(u, kind, status) ==
    [ user             |-> u,
      kind             |-> kind,
      status           |-> status,
      plan             |-> <<>>,
      structured       |-> FALSE,
      source           |-> "",
      days_until_reset |-> None,
      generations_used |-> None ]

Locals ==
    [ rolled          |-> FALSE,    \* the rollover branch was taken
      gate            |-> FALSE,    \* the limit check was reached
      gate_count      |-> None,     \* the counter the limit check read
      gate_reset      |-> None,     \* the reset date at the limit check
      resolved        |-> FALSE,    \* the readiness resolver ran
      now             |-> None,
      readiness_score |-> None,
      sleep_score     |-> None,
      prompt          |-> NoPrompt ]

\* the except clause of the JSON parse without its increment: the raw text
\* is cached and returned, the counter is left alone
TextFallback_NotCounted(u, stored, t, in, loc) ==
    LET u4 == [u EXCEPT !.last_generated_schedule = JsonDumps([text |-> in.completion.text])]
    IN IF "text" \in in.fail
       THEN loc @@ Reply(stored, "generation_error", 500)
       ELSE loc @@ [Reply(u4, "plan", 200) EXCEPT !.plan = in.completion.text,
                                                  !.structured = FALSE,
                                                  !.source = "completion"]

\* lines 302-314: the except clause of the JSON parse; u is the row object
\* as the try block left it, stored the row as last committed
TextFallback(u, stored, t, in, loc) ==
    LET u4 == [u EXCEPT !.plan_generations_count = @ + 1,
                        !.last_generated_schedule = JsonDumps([text |-> in.completion.text])]
    IN IF "text" \in in.fail
       THEN loc @@ Reply(stored, "generation_error", 500)
       ELSE loc @@ [Reply(u4, "plan", 200) EXCEPT !.plan = in.completion.text,
                                                  !.structured = FALSE,
                                                  !.source = "completion"]

\* lines 284-301: the JSON parse and the commit of a structured plan.  A
\* commit that raises lands in the except clause of the parse (line 302);
\* the session has rolled back by then, so the clause reads the row as it
\* was persisted, and its own commit decides what the request stores
StructuredPlan(u, t, in, loc) ==
    LET parsed == JsonLoads(CleanText(in.completion.text))
        u3 == [u EXCEPT !.plan_generations_count = @ + 1,
                        !.last_generated_schedule = JsonDumps(parsed.value)]
    IN IF ~parsed.ok THEN TextFallback(u, u, t, in, loc)
       ELSE IF "plan" \in in.fail THEN TextFallback(u, u, t, in, loc)
       ELSE loc @@ [Reply(u3, "plan", 200) EXCEPT !.plan = parsed.value,
                                                  !.structured = TRUE,
                                                  !.source = "completion"]

\* the try block with a heuristic plan that is counted and cached like a
\* structured one
Complete_MockCounted(u, acts, t, in, loc) ==
    IF ~in.client
    THEN LET mock == GenerateMockPlan(acts, loc.now, in.weather)
             u3   == [u EXCEPT !.plan_generations_count = @ + 1,
                               !.last_generated_schedule = JsonDumps(mock.plan)]
         IN IF mock.raised
            THEN loc @@ Reply(u, "generation_error", 500)
            ELSE loc @@ [Reply(u3, "plan", 200) EXCEPT !.plan = mock.plan,
                                                       !.structured = TRUE,
                                                       !.source = "mock"]
    ELSE IF in.completion.result = "raises"
    THEN loc @@ Reply(u, "generation_error", 500)
    ELSE IF IsEmptyText(in.completion)
    THEN loc @@ Reply(u, "empty_response", 500)
    ELSE StructuredPlan(u, t, in, loc)

\* the try block with the counter raised before the completion is called, so
\* that an empty answer or a failed call has used a generation
Complete_CountsAttempt(u, acts, t, in, loc) ==
    LET u1 == [u EXCEPT !.plan_generations_count = @ + 1]
    IN IF ~in.client
       THEN LET mock == GenerateMockPlan(acts, loc.now, in.weather)
            IN IF mock.raised
               THEN loc @@ Reply(u, "generation_error", 500)
               ELSE loc @@ [Reply(u, "plan", 200) EXCEPT !.plan = mock.plan,
                                                         !.structured = TRUE,
                                                         !.source = "mock"]
       ELSE IF in.completion.result = "raises"
       THEN loc @@ Reply(u1, "generation_error", 500)
       ELSE IF IsEmptyText(in.completion)
       THEN loc @@ Reply(u1, "empty_response", 500)
       ELSE StructuredPlan(u, t, in, loc)

\* lines 237-317: the try block
Complete(u, acts, t, in, loc) ==
    IF ~in.client
    THEN LET mock == GenerateMockPlan(acts, loc.now, in.weather)
         IN IF mock.raised
            THEN loc @@ Reply(u, "generation_error", 500)
            ELSE loc @@ [Reply(u, "plan", 200) EXCEPT !.plan = mock.plan,
                                                      !.structured = TRUE,
                                                      !.source = "mock"]
    ELSE IF in.completion.result = "raises"
    THEN loc @@ Reply(u, "generation_error", 500)
    ELSE IF IsEmptyText(in.completion)
    THEN loc @@ Reply(u, "empty_response", 500)
    ELSE StructuredPlan(u, t, in, loc)

\* lines 190-235: weather, now, the readiness resolver and the prompt
Prepare(u, acts, t, in, body, loc) ==
    LET now  == t + in.shift
        rs   == ResolveReadiness(u, now)
        loc3 == [loc EXCEPT !.resolved = TRUE,
                            !.now = now,
                            !.readiness_score = rs.readiness_score,
                            !.sleep_score = rs.sleep_score]
    IN IF body.last_activity = Unbound
       THEN loc3 @@ Reply(u, "unhandled", 500)
       ELSE Complete(u, acts, t, in,
                     [loc3 EXCEPT !.prompt = BuildPlanningPrompt(now, in.weather,
                                                                 rs.readiness_score,
                                                                 rs.sleep_score)])

\* lines 163-188: the request body and the excluded activities
ReadBody(u, acts, t, in, loc) ==
    LET body  == ParseBody(in.body)
        u2    == IF body.raised THEN u ELSE SaveContext(u, body)
        acts2 == IF body.excluded # {} THEN FilterActs(acts, body.excluded) ELSE acts
    IN IF ~body.raised /\ "context" \in in.fail
       THEN loc @@ Reply(u, "unhandled", 500)
       ELSE IF body.excluded # {} /\ acts2 = <<>>
       THEN loc @@ Reply(u2, "all_excluded", 400)
       ELSE Prepare(u2, acts2, t, in, body, loc)

\* the gate with the activities check ahead of the limit check
QuotaGate_ActivitiesFirst(u, acts, t, in, loc) ==
    LET loc2 == [loc EXCEPT !.gate = TRUE,
                            !.gate_count = u.plan_generations_count,
                            !.gate_reset = u.plan_generation_reset_date]
    IN IF acts = <<>>
       THEN loc2 @@ Reply(u, "no_activities", 400)
       ELSE IF LimitReached(u)
       THEN loc2 @@ [Reply(u, "limit_reached", 429)
                        EXCEPT !.days_until_reset = DaysUntilReset(u, t),
                               !.generations_used = u.plan_generations_count]
       ELSE ReadBody(u, acts, t, in, loc2)

\* lines 137-161: the limit check and the activities check
QuotaGate(u, acts, t, in, loc) ==
    LET loc2 == [loc EXCEPT !.gate = TRUE,
                            !.gate_count = u.plan_generations_count,
                            !.gate_reset = u.plan_generation_reset_date]
    IN IF LimitReached(u)
       THEN loc2 @@ [Reply(u, "limit_reached", 429)
                        EXCEPT !.days_until_reset = DaysUntilReset(u, t),
                               !.generations_used = u.plan_generations_count]
       ELSE IF acts = <<>>
       THEN loc2 @@ Reply(u, "no_activities", 400)
       ELSE ReadBody(u, acts, t, in, loc2)

\* lines 123-135: the weekly rollover, then the rest of the handler
generate_plan(u, acts, t, in) ==
    IF NeedsRollover(u, t)
    THEN IF "rollover" \in in.fail
         THEN [Locals EXCEPT !.rolled = TRUE] @@ Reply(u, "unhandled", 500)
         ELSE QuotaGate(Rollover(u, t), acts, t, in, [Locals EXCEPT !.rolled = TRUE])
    ELSE QuotaGate(u, acts, t, in, Locals)

(***************************************************************************)
(* Actions                                                                 *)
(***************************************************************************)
\* midnight passes: date.today() moves on
Tick ==
    /\ today < StartDay + MaxDays
    /\ today' = today + 1
    /\ last' = [op |-> "tick"]
    /\ UNCHANGED <<user, activities, appointments, calendar, ledger>>

\* POST /generate_plan
GeneratePlan(in) ==
    /\ user.plan_generations_count < MaxCount
    /\ LET r == generate_plan(user, activities, today, in)
       IN /\ user' = r.user
          /\ last' = [op |-> "generate_plan", in |-> in, pre |-> user, r |-> r]
    /\ UNCHANGED <<today, activities, appointments, calendar, ledger>>

\* POST /add_activity (activities.py, lines 44-95), for a user who keeps at
\* most n activities
AddActivityUpTo(form, n) ==
    /\ Len(activities) < n
    /\ MaxId(ActivityIds(activities)) < n
    /\ IF form.name = ""
       THEN activities' = activities
       ELSE activities' = Append(activities,
                [ id        |-> MaxId(ActivityIds(activities)) + 1,
                  name      |-> form.name,
                  intensity |-> IF form.intensity \in ValidIntensities
                                THEN form.intensity ELSE "" ])
    /\ last' = [op |-> "add_activity", form |-> form]
    /\ UNCHANGED <<today, user, appointments, calendar, ledger>>

AddActivity(form) == AddActivityUpTo(form, MaxActs)

\* POST /delete_activity/<id> (activities.py, lines 98-112)
DeleteActivity(id) ==
    /\ id \in ActivityIds(activities)
    /\ activities' = FilterActs(activities, {id})
    /\ last' = [op |-> "delete_activity", id |-> id]
    /\ UNCHANGED <<today, user, appointments, calendar, ledger>>

\* GET/POST /connect_fitbit without OAuth configured (integrations.py,
\* lines 27-36): random.randint(30, 70) and random.randint(35, 75)
ConnectFitbitMock(r, s) ==
    /\ user' = [user EXCEPT !.fitbit_connected = TRUE,
                            !.fitbit_readiness_score = r,
                            !.fitbit_sleep_score = s]
    /\ last' = [op |-> "connect_fitbit"]
    /\ UNCHANGED <<today, activities, appointments, calendar, ledger>>

\* the OAuth callback with an access token (integrations.py, lines 99-123):
\* _fetch_fitbit_readiness and _fetch_fitbit_sleep store a score or None
FitbitCallback(r, s) ==
    /\ user' = [user EXCEPT !.fitbit_connected = TRUE,
                            !.fitbit_readiness_score = r,
                            !.fitbit_sleep_score = s]
    /\ last' = [op |-> "fitbit_callback"]
    /\ UNCHANGED <<today, activities, appointments, calendar, ledger>>

\* /disconnect_fitbit (integrations.py, lines 429-442)
DisconnectFitbit ==
    /\ user.fitbit_connected
    /\ user' = [user EXCEPT !.fitbit_connected = FALSE,
                            !.fitbit_readiness_score = None,
                            !.fitbit_sleep_score = None]
    /\ last' = [op |-> "disconnect_fitbit"]
    /\ UNCHANGED <<today, activities, appointments, calendar, ledger>>

\* POST /connect_oura (integrations.py, lines 386-395): random.randint(65, 95)
ConnectOura(r) ==
    /\ user' = [user EXCEPT !.oura_connected = TRUE, !.oura_readiness_score = r]
    /\ last' = [op |-> "connect_oura"]
    /\ UNCHANGED <<today, activities, appointments, calendar, ledger>>

\* /disconnect_oura (integrations.py, lines 445-457)
DisconnectOura ==
    /\ user.oura_connected
    /\ user' = [user EXCEPT !.oura_connected = FALSE, !.oura_readiness_score = None]
    /\ last' = [op |-> "disconnect_oura"]
    /\ UNCHANGED <<today, activities, appointments, calendar, ledger>>

\* 0 <= score <= 100
\* the add_appointment form: title, date, repeating days (weekday numbers,
\* Monday 0), frequency and repeat-until date
AppointmentForm(t, d, ds, f, u) ==
    [title |-> t, date |-> d, repeating_days |-> ds, repeat_frequency |-> f,
     repeat_until |-> u]

\* single appointments before, inside and after the first week; a weekly
\* Friday appointment that started a week before the first day, open-ended
\* or ended; and three forms the handler rejects
AppointmentForms ==
    { AppointmentForm("Shift", d, {}, "none", None) :
        d \in {StartDay - 7, StartDay + 2, StartDay + 7} }
    \cup
    { AppointmentForm("Shift", StartDay - 7, {4}, "weekly", u) :
        u \in {None, StartDay - 1} }
    \cup
    { AppointmentForm("", StartDay + 2, {}, "", None),
      AppointmentForm("Shift", StartDay + 2, {}, "", StartDay - 8),
      AppointmentForm("Shift", StartDay + 2, {}, "weekly", None) }

AppointmentIds == {a.id : a \in appointments}

\* POST /add_appointment (activities.py, lines 115-204); in the stored
\* row no repeating days is the empty set and no frequency the empty string
AddAppointment(form) ==
    /\ Cardinality(appointments) < MaxApts
    /\ MaxId(AppointmentIds) < MaxApts
    /\ IF form.title = ""
       THEN appointments' = appointments
       ELSE IF form.repeat_until # None /\ form.repeat_until < form.date
       THEN appointments' = appointments
       ELSE IF /\ form.repeat_frequency \notin {"", "none"}
               /\ form.repeating_days = {}
               /\ form.repeat_frequency \in {"weekly", "biweekly"}
       THEN appointments' = appointments
       ELSE appointments' = appointments \cup
               { [ id               |-> MaxId(AppointmentIds) + 1,
                   date             |-> form.date,
                   repeating_days   |-> form.repeating_days,
                   repeat_frequency |-> IF form.repeat_frequency \notin {"", "none"}
                                        THEN form.repeat_frequency ELSE "",
                   repeat_until     |-> form.repeat_until ] }
    /\ last' = [op |-> "add_appointment", form |-> form]
    /\ UNCHANGED <<today, user, activities, calendar, ledger>>

\* POST /delete_appointment/<id> (activities.py, lines 207-221)
DeleteAppointment(id) ==
    /\ \E a \in appointments : a.id = id
    /\ appointments' = {a \in appointments : a.id # id}
    /\ last' = [op |-> "delete_appointment", id |-> id]
    /\ UNCHANGED <<today, user, activities, calendar, ledger>>

ValidScore(x) == 0 <= x /\ x <= 100

\* POST /update_manual_scores (planning.py, lines 80-114): a score out of
\* range ends the request before the commit, so nothing is stored
UpdateManualScores(r, s) ==
    /\ IF (r # None /\ ~ValidScore(r)) \/ (s # None /\ ~ValidScore(s))
       THEN user' = user
       ELSE user' = [user EXCEPT
                        !.manual_readiness_score = IF r # None THEN r ELSE @,
                        !.manual_sleep_score = IF s # None THEN s ELSE @,
                        !.manual_score_date = today]
    /\ last' = [op |-> "update_manual_scores", readiness_score |-> r, sleep_score |-> s]
    /\ UNCHANGED <<today, activities, appointments, calendar, ledger>>

\* GET /debug/weather (planning.py, lines 69-77): the forecast the planner
\* would use, for the provider's daily block and the user's unit
DebugWeather(daily, unit) ==
    /\ last' = [op |-> "debug_weather", daily |-> daily, unit |-> unit,
                r |-> GetWeatherForecast(daily, unit)]
    /\ UNCHANGED <<today, user, activities, appointments, calendar, ledger>>

(***************************************************************************)
(* Requests                                                                *)
(***************************************************************************)
EmptyBody ==
    [ extra_info |-> "", last_activity |-> "", injuries_pains |-> "",
      allow_multiple |-> FALSE, excluded |-> {} ]

NoClient == [client |-> FALSE, completion |-> [result |-> "raises", text |-> <<Blank>>]]
ClientRaises == [client |-> TRUE, completion |-> [result |-> "raises", text |-> <<Blank>>]]
ClientNone == [client |-> TRUE, completion |-> [result |-> "none", text |-> <<Blank>>]]
ClientText(ls) == [client |-> TRUE, completion |-> [result |-> "text", text |-> ls]]

Request(f, b, w, sh, c) ==
    [ fail |-> f, body |-> b, weather |-> w, shift |-> sh,
      client |-> c.client, completion |-> c.completion ]

(***************************************************************************)
(* generate_plan served by several workers at once.  Each worker has its   *)
(* own session; what another worker commits is seen only when the row is   *)
(* loaded again, which happens after a commit expires it.  The steps of    *)
(* one request with a well-formed body and a completion that parses:       *)
(*   BeginGenerate  lines 123-161: rollover, limit check, activities check *)
(*   SaveContextAndReload  lines 163-175 and 190: the context is           *)
(*                  committed and the row loaded again                     *)
(*   StorePlan      lines 293-301: count + 1 and the plan are committed    *)
(* and between the last two the completion service is called.              *)
(***************************************************************************)
BeginGenerate(w) ==
    /\ ledger.sessions[w].pc = "idle"
    /\ ledger.delivered < FreeLimit + MaxWorkers
    /\ LET u1 == IF NeedsRollover(user, today) THEN Rollover(user, today) ELSE user
           kind == IF LimitReached(u1) THEN "limit_reached"
                   ELSE IF activities = <<>> THEN "no_activities"
                   ELSE "checked"
       IN /\ user' = u1
          /\ ledger' = [ledger EXCEPT !.sessions[w] =
                            IF kind = "checked" THEN [pc |-> "checked", count |-> None]
                            ELSE IdleSession]
          /\ last' = [op |-> "begin_generate", worker |-> w, kind |-> kind]
    /\ UNCHANGED <<today, activities, appointments, calendar>>

SaveContextAndReload(w) ==
    /\ ledger.sessions[w].pc = "checked"
    /\ user' = SaveContext(user, ParseBody(EmptyBody))
    /\ ledger' = [ledger EXCEPT !.sessions[w] =
                      [pc |-> "loaded", count |-> user.plan_generations_count]]
    /\ last' = [op |-> "save_context", worker |-> w]
    /\ UNCHANGED <<today, activities, appointments, calendar>>

\* the commit writes the columns the request changed: the counter as the
\* session computed it and the cached plan
StorePlan(w) ==
    /\ ledger.sessions[w].pc = "loaded"
    /\ user' = [user EXCEPT
                    !.plan_generations_count = ledger.sessions[w].count + 1,
                    !.last_generated_schedule = JsonDumps(JsonValue(JsonA))]
    /\ ledger' = [ledger EXCEPT !.sessions[w] = IdleSession,
                                !.delivered = @ + 1]
    /\ last' = [op |-> "store_plan", worker |-> w]
    /\ UNCHANGED <<today, activities, appointments, calendar>>

(***************************************************************************)
(* Tier changes                                                            *)
(***************************************************************************)
\* POST /update_subscription (main.py, lines 124-166)
UpdateSubscription(new_tier) ==
    /\ IF new_tier \notin {"free_tier", "paid_tier"}
       THEN user' = user
       ELSE IF user.subscription_tier = "admin"
       THEN user' = user
       ELSE user' = [user EXCEPT
                        !.subscription_tier = new_tier,
                        !.plan_generations_count =
                            IF new_tier = "paid_tier" /\ user.subscription_tier = "free_tier"
                            THEN 0 ELSE @]
    /\ last' = [op |-> "update_subscription", new_tier |-> new_tier]
    /\ UNCHANGED <<today, activities, appointments, calendar, ledger>>

\* POST /downgrade (payment.py, lines 259-280)
Downgrade ==
    /\ IF user.subscription_tier \in {"admin", "free_tier"}
       THEN user' = user
       ELSE user' = [user EXCEPT !.subscription_tier = "free_tier",
                                 !.plan_generations_count = 0]
    /\ last' = [op |-> "downgrade"]
    /\ UNCHANGED <<today, activities, appointments, calendar, ledger>>

\* POST /free-upgrade (payment.py, lines 283-308)
FreeUpgrade ==
    /\ IF ~user.has_paid_before \/ user.subscription_tier \in {"paid_tier", "admin"}
       THEN user' = user
       ELSE user' = [user EXCEPT !.subscription_tier = "paid_tier",
                                 !.plan_generations_count = 0]
    /\ last' = [op |-> "free_upgrade"]
    /\ UNCHANGED <<today, activities, appointments, calendar, ledger>>

\* POST /create-checkout-session (payment.py, lines 35-100) with the payment
\* system configured: a user who paid before is upgraded at once, anyone
\* else is sent to the checkout page
CreateCheckoutSession ==
    /\ IF user.has_paid_before
       THEN user' = [user EXCEPT !.subscription_tier = "paid_tier",
                                 !.plan_generations_count = 0]
       ELSE user' = user
    /\ last' = [op |-> "create_checkout_session"]
    /\ UNCHANGED <<today, activities, appointments, calendar, ledger>>

\* GET /payment/success (payment.py, lines 103-162) for a checkout session
\* of the user whose payment status is paid or not
PaymentSuccess(paid) ==
    /\ IF paid
       THEN user' = [user EXCEPT !.subscription_tier = "paid_tier",
                                 !.has_paid_before = TRUE,
                                 !.plan_generations_count = 0]
       ELSE user' = user
    /\ last' = [op |-> "payment_success", paid |-> paid]
    /\ UNCHANGED <<today, activities, appointments, calendar, ledger>>

\* POST /generate_plan, with the plans delivered to the user while on the
\* free tier counted in the ledger
GeneratePlanCounted(in) ==
    /\ user.plan_generations_count < MaxCount
    /\ ledger.delivered < FreeLimit + 2
    /\ LET r == generate_plan(user, activities, today, in)
       IN /\ user' = r.user
          /\ last' = [op |-> "generate_plan", in |-> in, pre |-> user, r |-> r]
          /\ ledger' = [ledger EXCEPT !.delivered =
                            IF r.kind = "plan" /\ UserTier(user) = "free_tier"
                            THEN @ + 1 ELSE @]
    /\ UNCHANGED <<today, activities, appointments, calendar>>

\* requests of the quota specification: no weather, a few bodies and completions
QuotaRequests ==
    { Request(f, b, NoForecast, 0, c) :
        f \in {{}, {"rollover"}, {"plan"}},
        b \in { EmptyBody, [EmptyBody EXCEPT !.excluded = 1..MaxActs] },
        c \in { NoClient, ClientRaises, ClientText(<<JsonA>>), ClientText(<<Prose>>) } }

(***************************************************************************)
(* Specification of the quota gate: days pass, activities come and go,     *)
(* plans are requested                                                     *)
(***************************************************************************)
Init ==
    /\ today = StartDay
    /\ user \in {NewUser(tier) : tier \in Tiers}
    /\ activities = <<>>
    /\ appointments = {}
    /\ calendar = {}
    /\ ledger = NoLedger
    /\ last = [op |-> "init"]

Next ==
    \/ Tick
    \/ \E in \in QuotaRequests : GeneratePlan(in)
    \/ \E form \in ActivityForms : AddActivity(form)
    \/ \E id \in 1..MaxActs : DeleteActivity(id)

Spec == Init /\ [][Next]_vars

(***************************************************************************)
(* Specification of the request outcomes on one day: every completion      *)
(* result, every forecast shape and every failing profile write, for a     *)
(* free-tier user                                                          *)
(***************************************************************************)
DryWeek == [i \in 1..7 |-> 20]
WetFourthDay == [i \in 1..7 |-> IF i = 4 THEN 75 ELSE 20]

OutcomeWeather ==
    { [forecast |-> NoForecast, shift |-> 0],
      [forecast |-> FullForecast(DryWeek), shift |-> 1],
      [forecast |-> FullForecast(WetFourthDay), shift |-> 0],
      [forecast |-> DegenerateForecast, shift |-> 0] }

OutcomeTexts ==
    { <<Blank>>, <<JsonA>>, <<Prose>>,
      <<FenceJson, JsonA, Fence>>, <<FenceTagged, JsonA, Fence>>,
      <<FenceJson, JsonB, Fence, Blank>> }

OutcomeRequests ==
    { Request({}, EmptyBody, w.forecast, w.shift, NoClient) : w \in OutcomeWeather }
    \cup
    { Request(f, EmptyBody, NoForecast, 0, c) :
        f \in {{}, {"plan"}, {"text"}, {"plan", "text"}},
        c \in {ClientRaises, ClientNone} \cup {ClientText(ls) : ls \in OutcomeTexts} }
    \cup
    { Request(f, [EmptyBody EXCEPT !.extra_info = x, !.injuries_pains = y],
              NoForecast, 0, NoClient) :
        f \in {{}, {"context"}}, x \in {" knee ", NonString}, y \in {"", NonString} }
    \cup
    { Request({}, [EmptyBody EXCEPT !.excluded = 1..MaxActs], NoForecast, 0, NoClient) }

InitOutcome ==
    /\ today = StartDay
    /\ user = NewUser("free_tier")
    /\ activities = <<>>
    /\ appointments = {}
    /\ calendar = {}
    /\ ledger = NoLedger
    /\ last = [op |-> "init"]

NextOutcome ==
    \/ \E in \in OutcomeRequests : GeneratePlan(in)
    \/ \E form \in ActivityForms : AddActivity(form)
    \/ \E id \in 1..MaxActs : DeleteActivity(id)

SpecOutcome == InitOutcome /\ [][NextOutcome]_vars

(***************************************************************************)
(* Specification of the readiness resolver: trackers connect and           *)
(* disconnect, manual scores are entered, days pass, plans are requested   *)
(* in the server's time zone, one ahead of it and one behind it            *)
(***************************************************************************)
ReadinessRequests ==
    { Request({}, EmptyBody, FullForecast(DryWeek), sh, NoClient) : sh \in {-1, 0, 1} }
    \cup { Request({}, EmptyBody, NoForecast, 0, NoClient) }

NextReadiness ==
    \/ Tick
    \/ \E in \in ReadinessRequests : GeneratePlan(in)
    \/ \E form \in {f \in ActivityForms : f.name = "Run"} : AddActivity(form)
    \/ \E r \in {30, 70} : ConnectFitbitMock(r, 75)
    \/ \E r \in {None, 88}, s \in {None, 80} : FitbitCallback(r, s)
    \/ DisconnectFitbit
    \/ ConnectOura(65)
    \/ DisconnectOura
    \/ \E r \in {None, 0, 50, 101}, s \in {None, 60} : UpdateManualScores(r, s)

SpecReadiness == InitOutcome /\ [][NextReadiness]_vars

(***************************************************************************)
(* Specification of the prompt's date keys: a request on any first day     *)
(* from 2027-12-24 on, across the year's end and the leap day of 2028      *)
(***************************************************************************)
InitPrompt ==
    /\ today \in StartDay..(StartDay + PromptDays)
    /\ user = NewUser("free_tier")
    /\ activities = <<>>
    /\ appointments = {}
    /\ calendar = {}
    /\ ledger = NoLedger
    /\ last = [op |-> "init"]

NextPrompt ==
    \/ \E in \in ReadinessRequests : GeneratePlan(in)
    \/ \E form \in ActivityForms : AddActivity(form)

SpecPrompt == InitPrompt /\ [][NextPrompt]_vars

(***************************************************************************)
(* Specification of the heuristic plan: a user with up to MaxPlanActs       *)
(* activities and no completion service configured asks for plans under    *)
(* every forecast shape, with and without an excluded activity             *)
(***************************************************************************)
\* precipitation probabilities around the threshold of 60
EdgeWeek == <<61, 60, 20, 75, 0, 100, 59>>

HeuristicRequests ==
    { Request({}, [EmptyBody EXCEPT !.excluded = x], w.forecast, w.shift, NoClient) :
        x \in {{}, {1}},
        w \in OutcomeWeather \cup {[forecast |-> FullForecast(EdgeWeek), shift |-> 0]} }

InitHeuristic ==
    /\ today \in StartDay..(StartDay + MaxDays)
    /\ user = NewUser("paid_tier")
    /\ activities = <<>>
    /\ appointments = {}
    /\ calendar = {}
    /\ ledger = NoLedger
    /\ last = [op |-> "init"]

NextHeuristic ==
    \/ \E in \in HeuristicRequests : GeneratePlan(in)
    \/ \E form \in ActivityForms : AddActivityUpTo(form, MaxPlanActs)

SpecHeuristic == InitHeuristic /\ [][NextHeuristic]_vars

(***************************************************************************)
(* Specification of the weather resolver: forecasts are fetched for daily  *)
(* blocks whose first or last day carries wind and precipitation values    *)
(* around the thresholds, in both units                                    *)
(***************************************************************************)
\* mph, in thousandths: absent, calm, 14.5, 14.6, 15.0, 20.0
WindSpeeds == {None, 0, 10000, 14500, 14600, 15000, 20000}
\* mph, in thousandths: absent, 20.0, 24.9, 25.0, 30.0
WindGusts == {None, 20000, 24900, 25000, 30000}
\* mm or inches, in thousandths: absent, 0, 0.484, 12.3
PrecipSums == {None, 0, 484, 12300}

CalmDay ==
    [ precipitation_probability_max |-> 20, weathercode |-> 0,
      snowfall_sum |-> 0, rain_sum |-> 0,
      wind_speed_10m_max |-> 5000, wind_gusts_10m_max |-> 9000 ]

\* days that vary the wind of a calm day, and days that vary its
\* precipitation
ProviderDays ==
    { [CalmDay EXCEPT !.wind_speed_10m_max = ws, !.wind_gusts_10m_max = wg] :
        ws \in WindSpeeds, wg \in WindGusts }
    \cup
    { [CalmDay EXCEPT !.precipitation_probability_max = p, !.weathercode = c,
                      !.snowfall_sum = sn, !.rain_sum = rn] :
        p \in {None, 40}, c \in {0, 73}, sn \in PrecipSums, rn \in PrecipSums }

DailyBlocks ==
    { [i \in 1..7 |-> IF i = k THEN d ELSE CalmDay] : k \in {1, 7}, d \in ProviderDays }
    \cup {<<>>}

NextWeather ==
    \E daily \in DailyBlocks, unit \in {"C", "F"} : DebugWeather(daily, unit)

SpecWeather == InitOutcome /\ [][NextWeather]_vars

(***************************************************************************)
(* Specification for the biometric section: manual scores at the band      *)
(* boundaries, entered today by a user without trackers                    *)
(***************************************************************************)
ReadinessEdges == {None, 0, 29, 30, 64, 65, 100}

SleepEdges == {None, 0, 69, 70, 84, 85, 86, 100}

NextBiometric ==
    \/ GeneratePlan(Request({}, EmptyBody, NoForecast, 0, NoClient))
    \/ \E form \in {f \in ActivityForms : f.name = "Run"} : AddActivity(form)
    \/ \E r \in ReadinessEdges, s \in SleepEdges : UpdateManualScores(r, s)

SpecBiometric == InitOutcome /\ [][NextBiometric]_vars

(***************************************************************************)
(* Specification for the forecast lines of the prompt: forecasts with and  *)
(* without the sums of the next three hours on the entry of today          *)
(***************************************************************************)
\* next-3-hour sums in hundredths: none, dry, 1.2 of rain, 0.5 of snow
Next3Figures ==
    { [precip |-> None, rain |-> None, snow |-> None],
      [precip |-> 0,    rain |-> 0,    snow |-> 0],
      [precip |-> 120,  rain |-> 120,  snow |-> 0],
      [precip |-> 50,   rain |-> 0,    snow |-> 50] }

ForecastRequests ==
    { Request({}, EmptyBody, WithNext3(w, n), 0, NoClient) :
        w \in {FullForecast(DryWeek), FullForecast(WetFourthDay), DegenerateForecast},
        n \in Next3Figures }
    \cup { Request({}, EmptyBody, NoForecast, 0, NoClient) }

NextForecast ==
    \/ Tick
    \/ \E in \in ForecastRequests : GeneratePlan(in)
    \/ \E form \in ActivityForms : AddActivity(form)

SpecForecast == InitOutcome /\ [][NextForecast]_vars

(***************************************************************************)
(* Specification for the appointments of the prompt: single and weekly     *)
(* appointments are added and deleted, days pass, plans are asked for      *)
(***************************************************************************)
NextObligations ==
    \/ Tick
    \/ GeneratePlan(Request({}, EmptyBody, NoForecast, 0, NoClient))
    \/ \E form \in {f \in ActivityForms : f.name = "Run"} : AddActivity(form)
    \/ \E form \in AppointmentForms : AddAppointment(form)
    \/ \E id \in 1..MaxApts : DeleteAppointment(id)

SpecObligations == InitOutcome /\ [][NextObligations]_vars

(***************************************************************************)
(* Specification of concurrent generate requests of one free-tier user     *)
(* within one week                                                         *)
(***************************************************************************)
(* Calendar export (planning.py, export_to_google_calendar).  An activity  *)
(* name of a posted plan is a sequence of characters, an event of the      *)
(* calendar a record of its id, its start <<date, hour, minute>> and its   *)
(* summary; every event of the variable calendar carries the private       *)
(* property exportedFrom=aiActivityPlanner                                 *)
(***************************************************************************)
\* the activity names of the posted plans
ExportNames ==
    [ rest      |-> <<"R", "e", "s", "t">>,
      rest_day  |-> <<"R", "e", "s", "t", " ", "D", "a", "y">>,
      run       |-> <<"R", "u", "n">>,
      yoga      |-> <<"Y", "o", "g", "a">>,
      wrestling |-> <<"W", "r", "e", "s", "t", "l", "i", "n", "g">> ]

\* str.lower() on the letters of the names above
Lower(s) ==
    LET lower(c) == CASE c = "R" -> "r"
                      [] c = "D" -> "d"
                      [] c = "Y" -> "y"
                      [] c = "W" -> "w"
                      [] OTHER   -> c
    IN [i \in 1..Len(s) |-> lower(s[i])]

\* sub in s
Contains(sub, s) ==
    \E i \in 1..(Len(s) - Len(sub) + 1) : SubSeq(s, i, i + Len(sub) - 1) = sub

\* the keys of plan_data in the order of the posted object, earliest first
RECURSIVE PlanKeys(_)
PlanKeys(dates) ==
    IF dates = {} THEN <<>>
    ELSE LET first == CHOOSE d \in dates : \A e \in dates : d <= e
         IN <<first>> \o PlanKeys(dates \ {first})

\* events().list between the first and the last plan date (lines 841-860)
ListTagged(cal, plan_dates) ==
    IF plan_dates = {} THEN {}
    ELSE LET first_date == CHOOSE d \in plan_dates : \A e \in plan_dates : d <= e
             last_date  == CHOOSE d \in plan_dates : \A e \in plan_dates : d >= e
         IN {evt \in cal : evt.start[1] >= first_date /\ evt.start[1] <= last_date}

\* existing_events_by_date (lines 864-869): one listed event per date, the
\* one the listing returns last; every such map.  Of no event it is the
\* empty map of lines 874 and 876
ExistingEventsByDate(listed) ==
    {m \in [{evt.start[1] : evt \in listed} -> listed] :
        \A d \in DOMAIN m : m[d].start[1] = d}

\* the id Google gives an inserted event: one no event of the calendar has
NewEventId(cal) ==
    IF cal = {} THEN 1
    ELSE 1 + (CHOOSE n \in {evt.id : evt \in cal} : \A evt \in cal : evt.id <= n)

\* the loop over plan_data.items() (lines 882-959); fail holds the dates
\* whose events().insert or events().update raises
RECURSIVE ExportEntries(_, _, _, _, _)
ExportEntries(keys, plan_data, existing_events_by_date, fail, acc) ==
    IF keys = <<>> THEN acc
    ELSE LET date_key == Head(keys)
             activity == plan_data[date_key].activity
             event    == [start |-> <<date_key, 9, 0>>, summary |-> activity]
             next ==
                 IF Contains(<<"r", "e", "s", "t">>, Lower(activity)) THEN acc
                 ELSE IF date_key \in fail THEN acc
                 ELSE IF date_key \in DOMAIN existing_events_by_date
                 THEN LET event_id == existing_events_by_date[date_key].id
                      IN [acc EXCEPT
                            !.calendar = {evt \in @ : evt.id # event_id}
                                \cup {[id |-> event_id, start |-> event.start,
                                       summary |-> event.summary]},
                            !.updated = @ + 1]
                 ELSE [acc EXCEPT
                            !.calendar = @ \cup {[id |-> NewEventId(@),
                                                  start |-> event.start,
                                                  summary |-> event.summary]},
                            !.created = @ + 1]
         IN ExportEntries(Tail(keys), plan_data, existing_events_by_date, fail, next)

\* the handler (lines 716-994): the response and the calendar it leaves
export_to_google_calendar(u, cal, in, existing_events_by_date) ==
    IF UserTier(u) \notin {"paid_tier", "admin"}
    THEN [status |-> 403, kind |-> "upgrade_required", calendar |-> cal]
    ELSE IF ~in.google_token
    THEN [status |-> 403, kind |-> "not_connected", calendar |-> cal]
    ELSE IF DOMAIN in.plan = {}
    THEN [status |-> 400, kind |-> "no_plan", calendar |-> cal]
    ELSE IF ~in.refresh_ok
    THEN [status |-> 401, kind |-> "reconnect_required", calendar |-> cal]
    ELSE LET acc == ExportEntries(PlanKeys(DOMAIN in.plan), in.plan,
                                  existing_events_by_date, in.fail,
                                  [calendar |-> cal, created |-> 0, updated |-> 0])
         IN [status |-> 200, kind |-> "exported",
             success |-> acc.created + acc.updated > 0,
             created |-> acc.created, updated |-> acc.updated,
             calendar |-> acc.calendar]

\* POST /export_to_google_calendar
ExportToGoogleCalendar(in) ==
    /\ Cardinality(calendar) + Cardinality(DOMAIN in.plan) <= MaxEvents
    /\ \E existing \in (IF in.list_ok
                        THEN ExistingEventsByDate(ListTagged(calendar, DOMAIN in.plan))
                        ELSE ExistingEventsByDate({})) :
          LET r == export_to_google_calendar(user, calendar, in, existing)
          IN /\ calendar' = r.calendar
             /\ last' = [op |-> "export_to_google_calendar", in |-> in,
                         pre |-> calendar, r |-> r]
    /\ UNCHANGED <<today, user, activities, appointments, ledger>>

\* the posted plans: an entry or none for each of the first two days
ExportDates == {StartDay, StartDay + 1}

ExportPlans ==
    UNION { [dates -> {[activity |-> ExportNames[k]] : k \in DOMAIN ExportNames}] :
                dates \in SUBSET ExportDates }

\* the requests: the posted plan, whether the user has a Google token and
\* whether its refresh succeeds, whether events().list succeeds, and the
\* dates whose events().insert or events().update raises
ExportRequests ==
    { [plan |-> p, google_token |-> TRUE, refresh_ok |-> TRUE,
       list_ok |-> l, fail |-> f] :
        p \in ExportPlans, l \in BOOLEAN, f \in SUBSET ExportDates }
    \cup
    { [plan |-> p, google_token |-> t, refresh_ok |-> r,
       list_ok |-> TRUE, fail |-> {}] :
        p \in {q \in ExportPlans : DOMAIN q = {StartDay}},
        t \in BOOLEAN, r \in BOOLEAN }

(***************************************************************************)
NextConcurrent ==
    \/ \E form \in {f \in ActivityForms : f.name = "Run"} : AddActivity(form)
    \/ \E w \in 1..MaxWorkers : BeginGenerate(w)
    \/ \E w \in 1..MaxWorkers : SaveContextAndReload(w)
    \/ \E w \in 1..MaxWorkers : StorePlan(w)

SpecConcurrent == InitOutcome /\ [][NextConcurrent]_vars

(***************************************************************************)
(* Specification of tier changes: one user, one week, generate requests    *)
(* answered by the completion service, and every route that changes the    *)
(* user's own tier                                                         *)
(***************************************************************************)
NextTiers ==
    \/ GeneratePlanCounted(Request({}, EmptyBody, NoForecast, 0, ClientText(<<JsonA>>)))
    \/ \E form \in {f \in ActivityForms : f.name = "Run"} : AddActivity(form)
    \/ \E new_tier \in {"free_tier", "paid_tier", "admin"} : UpdateSubscription(new_tier)
    \/ Downgrade
    \/ FreeUpgrade
    \/ CreateCheckoutSession
    \/ \E paid \in BOOLEAN : PaymentSuccess(paid)

SpecTiers == InitOutcome /\ [][NextTiers]_vars

(***************************************************************************)
(* Specification of the calendar export: one user who pays and downgrades, *)
(* and exports of plans for the first two days                             *)
(***************************************************************************)
NextExport ==
    \/ \E in \in ExportRequests : ExportToGoogleCalendar(in)
    \/ \E paid \in BOOLEAN : PaymentSuccess(paid)
    \/ Downgrade

SpecExport == InitOutcome /\ [][NextExport]_vars

(***************************************************************************)
(* Properties.  A generate_plan step leaves in last the request (in),      *)
(* the row before it (pre) and the result (r); today and activities are    *)
(* those of the request.                                                   *)
(***************************************************************************)
Generated == last.op = "generate_plan"

\* a Monday of the calendar: 2024-01-01
KnownMonday == Ordinal(2024, 1, 1)
IsMonday(d) == (d - KnownMonday) % 7 = 0

\* the stored reset date is absent or earlier than today
Stale(u) == u.plan_generation_reset_date = None \/ u.plan_generation_reset_date < today

\* the counter once the rollover step is done
CountAfterRollover(u) == IF Stale(u) THEN 0 ELSE u.plan_generations_count

Unlimited(u) == u.subscription_tier \in {"paid_tier", "admin"}

C4_Claimed ==
    (Generated /\ activities = <<>>) =>
        /\ last.r.kind = "no_activities"
        /\ user.plan_generations_count = last.pre.plan_generations_count
        /\ user.plan_generation_reset_date = last.pre.plan_generation_reset_date

\* C4 amended: with no activities on file, a request that reaches the limit
\* check is rejected by the quota gate when the counter after the rollover is
\* at the limit and with "add activities first" otherwise; it returns no plan
\* and never increments the counter: the row is left as the rollover step
\* left it (counter 0 and the next Monday when the stored reset date was
\* absent or past, untouched otherwise)
C4_NoActivities ==
    (Generated /\ activities = <<>> /\ last.r.gate) =>
        /\ last.r.kind =
              IF ~Unlimited(last.pre) /\ CountAfterRollover(last.pre) >= 3
              THEN "limit_reached" ELSE "no_activities"
        /\ last.r.kind = "no_activities" => last.r.status = 400
        /\ IF Stale(last.pre)
           THEN /\ user.plan_generations_count = 0
                /\ IsMonday(user.plan_generation_reset_date)
                /\ user.plan_generation_reset_date > today
                /\ user.plan_generation_reset_date <= today + 7
           ELSE user = last.pre
        /\ user.last_generated_schedule = last.pre.last_generated_schedule

\* C4 witness: a user who used generations, deleted every activity and asks
\* again in a later week is told to add activities, the counter zeroed
C4_Witness ==
    /\ Generated
    /\ activities = <<>>
    /\ last.r.kind = "no_activities"
    /\ last.pre.plan_generations_count > 0
    /\ user.plan_generations_count = 0

\* the request reached the try block of the completion: the gate and the
\* input validation passed and the prompt was built
Completing == Generated /\ last.r.prompt # NoPrompt

\* the seven ISO dates of the planning date and the six days after it
WeekKeys(now) == {IsoDate(now + i) : i \in 0..6}

\* the heuristic plan of the request
HeuristicPlan == GenerateMockPlan(activities, last.r.now, last.in.weather).plan

C5_Claimed ==
    (Completing /\ (~last.in.client \/ last.in.completion.result = "raises")) =>
        /\ last.r.kind = "plan"
        /\ DOMAIN last.r.plan = WeekKeys(last.r.now)

\* a text of nothing but white space
AllBlank(ls) == \A i \in 1..Len(ls) : ls[i] = Blank

\* the completion returned None or a text of white space only
EmptyReturned ==
    /\ Completing /\ last.in.client
    /\ \/ last.in.completion.result = "none"
       \/ last.in.completion.result = "text" /\ AllBlank(last.in.completion.text)

\* the completion returned a text that is not JSON once the fences are
\* stripped
UnparsableReturned ==
    /\ Completing /\ last.in.client /\ last.in.completion.result = "text"
    /\ ~AllBlank(last.in.completion.text)
    /\ ~JsonLoads(CleanText(last.in.completion.text)).ok

Resolved == Generated /\ last.r.resolved

\* rule (1): tracker A (Fitbit) is connected and has a readiness score
RuleA(u) == u.fitbit_connected /\ u.fitbit_readiness_score # None

\* rule (2): tracker B (Oura) is connected and has a readiness score
RuleB(u) == u.oura_connected /\ u.oura_readiness_score # None

\* manual scores are stored and dated on or after the planning date
FreshManual(u, now) ==
    /\ u.manual_readiness_score # None
    /\ u.manual_score_date # None
    /\ u.manual_score_date >= now

\* C7: when tracker A is connected with a readiness score, the resolved
\* readiness and sleep scores are tracker A's, whatever tracker B and the
\* manual scores hold
C7_TrackerAFirst ==
    (Resolved /\ RuleA(last.pre)) =>
        /\ last.r.readiness_score = last.pre.fitbit_readiness_score
        /\ last.r.sleep_score = last.pre.fitbit_sleep_score

\* C7 witness: tracker A's scores are resolved while tracker B has a score
\* and fresh manual scores, all different from tracker A's, are stored
C7_Witness ==
    /\ Resolved /\ RuleA(last.pre) /\ RuleB(last.pre)
    /\ FreshManual(last.pre, last.r.now)
    /\ last.pre.manual_sleep_score # None
    /\ last.r.readiness_score = last.pre.fitbit_readiness_score
    /\ last.r.readiness_score # last.pre.oura_readiness_score
    /\ last.r.readiness_score # last.pre.manual_readiness_score
    /\ last.r.sleep_score # last.pre.manual_sleep_score

\* C8 as claimed: when rule (1) does not match and tracker B is connected
\* with a readiness score, the resolved readiness is tracker B's and the
\* resolved sleep score is absent
C8_Claimed ==
    (Resolved /\ ~RuleA(last.pre) /\ RuleB(last.pre)) =>
        /\ last.r.readiness_score = last.pre.oura_readiness_score
        /\ last.r.sleep_score = None

\* C9 as claimed: when no tracker rule applies, fresh manual scores are the
\* resolved scores, and otherwise the resolved readiness and sleep score
\* are both absent
C9_Claimed ==
    (Resolved /\ ~RuleA(last.pre) /\ ~RuleB(last.pre)) =>
        IF FreshManual(last.pre, last.r.now)
        THEN /\ last.r.readiness_score = last.pre.manual_readiness_score
             /\ last.r.sleep_score = last.pre.manual_sleep_score
        ELSE /\ last.r.readiness_score = None
             /\ last.r.sleep_score = None

\* C10: the schema block of every prompt has seven lines; line i carries
\* the ISO date of the planning date plus i - 1 days, a valid calendar
\* date, and the day name, month and day of that same date
C10_SevenDateKeys ==
    (Generated /\ last.r.prompt # NoPrompt) =>
        LET schema == last.r.prompt.schema
        IN /\ Len(schema) = 7
           /\ \A i \in 1..7 :
                 LET key == schema[i].date_key
                     day == last.r.now + (i - 1)
                 IN /\ key[2] \in 1..12
                    /\ key[3] \in 1..DaysInMonth(key[1], key[2])
                    /\ Ordinal(key[1], key[2], key[3]) = day
                    /\ schema[i].day_name =
                          <<DayNames[((day - KnownMonday) % 7) + 1],
                            MonthAbbr[key[2]], key[3]>>
           /\ last.r.prompt.today_label = schema[1].day_name

\* C10 witness: a prompt whose date keys run from Saturday 2028-02-26 over
\* the leap day to Friday 2028-03-03
C10_Witness ==
    /\ Generated /\ last.r.prompt # NoPrompt
    /\ last.r.prompt.schema[1].date_key = <<2028, 2, 26>>
    /\ last.r.prompt.schema[1].day_name = <<"Saturday", "Feb", 26>>
    /\ last.r.prompt.schema[4].date_key = <<2028, 2, 29>>
    /\ last.r.prompt.schema[7].date_key = <<2028, 3, 3>>
    /\ last.r.prompt.schema[7].day_name = <<"Friday", "Mar", 3>>

\* the completion returned one JSON line between an opening fence line that
\* carries a tag and a closing fence line, and every profile write succeeds
FencedJsonReturned ==
    /\ Completing /\ last.in.client /\ last.in.completion.result = "text"
    /\ last.in.fail = {}
    /\ Len(last.in.completion.text) >= 3
    /\ last.in.completion.text[1] \in {FenceJson, FenceTagged}
    /\ last.in.completion.text[2] \in JsonLines
    /\ last.in.completion.text[3] = Fence

Available == SelectSeq(activities, LAMBDA a : a.id \notin last.in.body.excluded)

\* the forecast has an entry for day index i
HasEntry(forecast, i) == i < Len(forecast)

\* C12: in a heuristic plan, the entry of day index i in 0..6 is the fixed
\* indoor/rest activity with a note of the precipitation when the forecast
\* has an entry for the day whose precipitation probability exceeds 60;
\* otherwise it is the activity at i mod n of the n available activities,
\* except that without a forecast the days with i mod 3 = 0 are rest days
C12_HeuristicPlanRules ==
    (Generated /\ last.r.kind = "plan" /\ last.r.source = "mock") =>
        \A i \in 0..6 :
            LET entry == last.r.plan[IsoDate(last.r.now + i)]
                fc    == last.in.weather
                n     == Len(Available)
            IN IF HasEntry(fc, i) /\ fc[i + 1].precipitation > 60
               THEN /\ entry.activity = "Indoor Yoga or Rest"
                    /\ entry.notes[1] = "High precipitation"
                    /\ entry.notes[2] = fc[i + 1].precipitation
               ELSE IF fc = <<>> /\ i % 3 = 0
               THEN entry.activity = "Rest Day"
               ELSE entry.activity = Available[(i % n) + 1].name

\* C12 witness: three activities and a forecast whose day 3 has 75: day 3
\* is the indoor entry, day 1 at exactly 60 is the second activity, day 4
\* is the second activity again and day 6 the first
C12_Witness ==
    /\ Generated /\ last.r.kind = "plan" /\ last.r.source = "mock"
    /\ Len(Available) = 3
    /\ Available[1].name # Available[2].name
    /\ last.in.weather = FullForecast(EdgeWeek)
    /\ last.r.plan[IsoDate(last.r.now + 3)].activity = "Indoor Yoga or Rest"
    /\ last.r.plan[IsoDate(last.r.now + 3)].notes[2] = 75
    /\ last.r.plan[IsoDate(last.r.now + 1)].activity = Available[2].name
    /\ last.r.plan[IsoDate(last.r.now + 4)].activity = Available[2].name
    /\ last.r.plan[IsoDate(last.r.now + 6)].activity = Available[1].name

\* the outcomes that are no plan but a typed answer: a rejection or an error
Rejections == {"limit_reached", "no_activities", "all_excluded"}
Errors == {"empty_response", "generation_error"}

\* C13: a request that ends in a rejection (quota exceeded, no activities,
\* all activities excluded) or in an error (empty completion text, an
\* exception of the completion service or of a profile write) leaves the
\* counter where the rollover step put it, never higher than before, and
\* leaves the cached plan as it was
C13_NoPlanNoCount ==
    (Generated /\ last.r.kind \in Rejections \cup Errors) =>
        /\ user.plan_generations_count = last.r.gate_count
        /\ user.plan_generations_count = CountAfterRollover(last.pre)
        /\ user.plan_generations_count <= last.pre.plan_generations_count
        /\ user.last_generated_schedule = last.pre.last_generated_schedule

\* C13 witness: the completion service raised for a user with two
\* generations used and a cached plan; both are as before
C13_Witness ==
    /\ Generated
    /\ last.r.kind = "generation_error"
    /\ last.in.client /\ last.in.completion.result = "raises"
    /\ last.pre.plan_generations_count = 2
    /\ last.pre.last_generated_schedule # NoSchedule
    /\ user.plan_generations_count = 2
    /\ user.last_generated_schedule = last.pre.last_generated_schedule

\* C14: once the rollover step of a request is done, the stored reset date
\* is a Monday with today <= reset date <= today + 7; and in every state,
\* whatever requests and day advances came before, a stored reset date is a
\* Monday no later than today + 7
C14_ResetDateIsComingMonday ==
    /\ (Generated /\ last.r.gate) =>
          /\ IsMonday(user.plan_generation_reset_date)
          /\ today <= user.plan_generation_reset_date
          /\ user.plan_generation_reset_date <= today + 7
    /\ user.plan_generation_reset_date # None =>
          /\ IsMonday(user.plan_generation_reset_date)
          /\ user.plan_generation_reset_date <= today + 7

\* C14 witness: a request on the day after the stored reset date moved the
\* reset date on by one week
C14_Witness ==
    /\ Generated /\ last.r.gate
    /\ last.pre.plan_generation_reset_date = today - 1
    /\ user.plan_generation_reset_date = last.pre.plan_generation_reset_date + 7
    /\ user.plan_generation_reset_date = today + 6

\* C15 as claimed: a free-tier user who used the 3 generations of a week is
\* not rejected by the quota gate on the Monday that is the stored reset date
C15_Claimed ==
    (/\ Generated /\ last.r.gate
     /\ last.pre.subscription_tier = "free_tier"
     /\ last.pre.plan_generations_count = 3
     /\ last.pre.plan_generation_reset_date = today
     /\ IsMonday(today)) =>
        last.r.kind # "limit_reached"

\* a free-text field of the body is not a string
MalformedBody(body) ==
    NonString \in {body.extra_info, body.last_activity, body.injuries_pains}

\* C16 as claimed: a request whose profile writes all succeed ends in a
\* typed outcome, never in an exception that leaves the handler; with a
\* malformed free-text field it still goes on to build the prompt once the
\* gate and the activities check are passed
C16_Claimed ==
    (Generated /\ last.in.fail = {}) =>
        /\ last.r.kind # "unhandled"
        /\ (MalformedBody(last.in.body) /\ last.r.gate
            /\ last.r.kind \notin {"limit_reached", "no_activities"}) =>
               last.r.prompt # NoPrompt

\* a forecast was fetched
Fetched == last.op = "debug_weather"

\* the provider's value v, in thousandths, is present and at least n units
AtLeast(v, n) == v # None /\ v >= n * 1000

\* C17: every entry of a forecast is flagged windy exactly when the
\* provider's wind speed of the day is at least 15 mph or its gusts are at
\* least 25 mph, the provider's values being compared as they came, before
\* they are rounded for the entry; the entry of a response without a daily
\* block has no wind values and is not windy
C17_WindyThresholds ==
    Fetched =>
        \A i \in 1..Len(last.r) :
            IF last.daily = <<>>
            THEN ~last.r[i].is_windy
            ELSE last.r[i].is_windy <=>
                    \/ AtLeast(last.daily[i].wind_speed_10m_max, 15)
                    \/ AtLeast(last.daily[i].wind_gusts_10m_max, 25)

\* C17 witness: 20 mph with gusts of 30 is windy on the last day of a
\* forecast whose other days, at 5 mph with gusts of 9, are not
C17_Witness ==
    /\ Fetched /\ Len(last.r) = 7
    /\ last.daily[7].wind_speed_10m_max = 20000
    /\ last.daily[7].wind_gusts_10m_max = 30000
    /\ last.daily[7].rain_sum = 0
    /\ last.r[7].is_windy
    /\ last.r[7].wind_speed = 20
    /\ ~last.r[1].is_windy

\* the sum s, in thousandths, is x rounded to two decimals
IsRounded2(s, x) == s % 10 = 0 /\ s - x <= 5 /\ x - s <= 5

\* the sum s, in thousandths, is a tenth of x rounded to two decimals
IsRounded2OfTenth(s, x) == s % 10 = 0 /\ 10 * s - x <= 50 /\ x - 10 * s <= 50

\* C18 as claimed: with unit F the snowfall and rain sums are the provider's
\* (to two decimals); with unit C both are a tenth of the provider's
C18_Claimed ==
    (Fetched /\ last.daily # <<>>) =>
        \A i \in 1..7 :
            LET snow == OrZero(last.daily[i].snowfall_sum)
                rain == OrZero(last.daily[i].rain_sum)
            IN IF last.unit = "F"
               THEN /\ IsRounded2(last.r[i].snowfall_sum, snow)
                    /\ IsRounded2(last.r[i].rain_sum, rain)
               ELSE /\ IsRounded2OfTenth(last.r[i].snowfall_sum, snow)
                    /\ IsRounded2OfTenth(last.r[i].rain_sum, rain)

\* C18 amended: with unit F the snowfall and rain sums are the provider's
\* (to two decimals, in inches); with unit C the rain sum is a tenth of the
\* provider's millimetres, and the snowfall sum is the provider's number
\* itself, not multiplied, both labelled cm
C18_SumsByUnit ==
    (Fetched /\ last.daily # <<>>) =>
        \A i \in 1..7 :
            LET snow == OrZero(last.daily[i].snowfall_sum)
                rain == OrZero(last.daily[i].rain_sum)
            IN /\ IsRounded2(last.r[i].snowfall_sum, snow)
               /\ IF last.unit = "F"
                  THEN /\ IsRounded2(last.r[i].rain_sum, rain)
                       /\ last.r[i].precip_unit = "in"
                  ELSE /\ IsRounded2OfTenth(last.r[i].rain_sum, rain)
                       /\ last.r[i].precip_unit = "cm"

\* C18 witness: with unit C, 12.3 mm of rain is 1.23 and 12.3 of snowfall
\* is 12.3
C18_Witness ==
    /\ Fetched /\ last.unit = "C" /\ last.daily # <<>>
    /\ last.daily[1].rain_sum = 12300 /\ last.daily[1].snowfall_sum = 12300
    /\ last.r[1].rain_sum = 1230
    /\ last.r[1].snowfall_sum = 12300

\* C19: when the completion returns a non-empty text that does not parse
\* and the write of the fallback succeeds, the request has used one
\* generation: the counter is one above the counter the limit check read,
\* and the cached plan is the raw text
C19_ParseFailureCounts ==
    (UnparsableReturned /\ "text" \notin last.in.fail) =>
        /\ last.r.kind = "plan"
        /\ user.plan_generations_count = last.r.gate_count + 1
        /\ user.plan_generations_count = CountAfterRollover(last.pre) + 1
        /\ user.last_generated_schedule = JsonDumps([text |-> last.in.completion.text])

\* C19 witness: a JSON object behind a fence tagged python did not parse;
\* the user's second generation of the week became the third and the cached
\* plan is the fenced text
C19_Witness ==
    /\ UnparsableReturned
    /\ last.in.completion.text = <<FenceTagged, JsonA, Fence>>
    /\ last.pre.plan_generations_count = 2
    /\ user.plan_generations_count = 3
    /\ user.last_generated_schedule = JsonDumps([text |-> <<FenceTagged, JsonA, Fence>>])

\* the resolved snapshot carries this score: it is set and lies in 0..100
HasScore(x) == x # None /\ x \in 0..100

\* the biometric section has a line of this kind for this score
HasLine(section, kind, score) ==
    \E i \in 1..Len(section.lines) :
        section.lines[i].kind = kind /\ section.lines[i].score = score

\* C20: whenever the resolved snapshot has a readiness score or a sleep
\* score, any value in 0..100 and 0 included, the prompt contains the
\* biometric section, scoped to the label of today, with a line for each
\* score the snapshot has and the instruction that the scores apply to
\* today only
C20_Claimed ==
    (Generated /\ last.r.prompt # NoPrompt) =>
        LET readiness_score == last.r.readiness_score
            sleep_score     == last.r.sleep_score
            section         == last.r.prompt.biometric
        IN (HasScore(readiness_score) \/ HasScore(sleep_score)) =>
              /\ section # NoBiometric
              /\ section.scope = DayLabel(last.r.now)
              /\ section.today_only
              /\ HasScore(readiness_score) =>
                     HasLine(section, "readiness", readiness_score)
              /\ HasScore(sleep_score) =>
                     HasLine(section, "sleep", sleep_score)

\* the sleep line of the biometric section of the prompt just built
SleepLine ==
    LET lines == last.r.prompt.biometric.lines
    IN CHOOSE l \in {lines[i] : i \in 1..Len(lines)} : l.kind = "sleep"

\* a prompt was built whose biometric section has a sleep line
SleepLineEmitted ==
    /\ Generated /\ last.r.prompt # NoPrompt
    /\ HasLine(last.r.prompt.biometric, "sleep", last.r.sleep_score)

\* C21 as claimed: the sleep band is poor below 70, moderate from 70 up to
\* and including 85, and excellent only above 85
C21_Claimed ==
    SleepLineEmitted =>
        LET score == last.r.sleep_score
        IN SleepLine.band = (IF score < 70 THEN "Poor"
                             ELSE IF score <= 85 THEN "Moderate"
                             ELSE "Excellent")

\* C21: the sleep band is poor below 70, moderate from 70 up to but not
\* including 85, and excellent for 85 and above
C21_SleepBands ==
    SleepLineEmitted =>
        LET score == last.r.sleep_score
        IN /\ SleepLine.score = score
           /\ score < 70 => SleepLine.band = "Poor"
           /\ (70 <= score /\ score < 85) => SleepLine.band = "Moderate"
           /\ score >= 85 => SleepLine.band = "Excellent"

\* C21 witness: a manual sleep score of 85 entered today is on the sleep
\* line of the prompt with the excellent band
C21_Witness ==
    /\ SleepLineEmitted
    /\ last.pre.manual_sleep_score = 85
    /\ last.r.sleep_score = 85
    /\ SleepLine.band = "Excellent"

\* a prompt was built from a forecast
ForecastPrompted ==
    /\ Generated /\ last.r.prompt # NoPrompt
    /\ last.in.weather # NoForecast

\* C22: when a forecast is available and its entry flagged is_today carries
\* a next-3-hour precipitation figure, the forecast line of today in the
\* prompt includes that figure with the rain and snow figures; the line of
\* no other day includes one
C22_Claimed ==
    ForecastPrompted =>
        LET forecast == last.in.weather
            lines    == last.r.prompt.forecast
        IN /\ Len(lines) = Len(forecast)
           /\ \A i \in 1..Len(forecast) :
                 IF forecast[i].is_today
                 THEN forecast[i].next3_precip # None =>
                         lines[i].short_term =
                             <<"next 3h", forecast[i].next3_precip,
                               OrZero(forecast[i].next3_rain),
                               OrZero(forecast[i].next3_snow)>>
                 ELSE lines[i].short_term = <<>>

\* the appointment has an occurrence on day d: its own date, or, for a
\* weekly appointment, a later day of one of its repeating weekdays up to
\* its repeat-until date
Occurs(a, d) ==
    \/ d = a.date
    \/ /\ a.repeat_frequency = "weekly"
       /\ d > a.date
       /\ Weekday(d) \in a.repeating_days
       /\ (a.repeat_until = None \/ d <= a.repeat_until)

\* C23: the prompt enumerates, in ascending date order, every appointment
\* that falls on a date d with now <= d <= now + 6, occurrences of repeating
\* appointments that started before now included, and no appointment
\* outside that window
C23_Claimed ==
    (Generated /\ last.r.prompt # NoPrompt) =>
        LET lines  == last.r.prompt.appointments
            window == last.r.now..(last.r.now + 6)
        IN /\ \A i, j \in 1..Len(lines) : i < j => lines[i].date <= lines[j].date
           /\ \A a \in appointments : \A d \in window :
                 Occurs(a, d) =>
                    \E i \in 1..Len(lines) : lines[i].id = a.id /\ lines[i].date = d
           /\ \A i \in 1..Len(lines) :
                 /\ lines[i].date \in window
                 /\ \E a \in appointments :
                       a.id = lines[i].id /\ Occurs(a, lines[i].date)

\* C24: when none of the rules (1) to (3) matches, that is no tracker
\* supplies a readiness score and there are no fresh manual scores, the
\* resolved readiness score and the resolved sleep score are both absent,
\* also when tracker A is connected and holds a sleep score
C24_Claimed ==
    (/\ Resolved
     /\ ~RuleA(last.pre) /\ ~RuleB(last.pre)
     /\ ~FreshManual(last.pre, last.r.now)) =>
        /\ last.r.readiness_score = None
        /\ last.r.sleep_score = None

\* the completion returned a text that is JSON once the fences are stripped
ParsedReturned ==
    /\ Completing /\ last.in.client /\ last.in.completion.result = "text"
    /\ ~AllBlank(last.in.completion.text)
    /\ JsonLoads(CleanText(last.in.completion.text)).ok

\* a profile write of lines 284-317 was attempted and failed
PlanWriteFailed ==
    \/ ParsedReturned /\ "plan" \in last.in.fail
    \/ UnparsableReturned /\ "text" \in last.in.fail

C26_Claimed ==
    [][ (/\ last'.op = "update_manual_scores"
         /\ last'.readiness_score = None
         /\ ~FreshManual(user, today))
        => ~FreshManual(user', today') ]_vars

\* no generate request is in flight
Quiescent == \A w \in 1..MaxWorkers : ledger.sessions[w].pc = "idle"

\* C27: under any interleaving of concurrent generate requests of one
\* free-tier user within one week, the plans delivered never exceed the
\* limit of 3, and no increment is lost: once every request has ended the
\* counter is the number of plans delivered
C27_Claimed ==
    /\ ledger.delivered <= FreeLimit
    /\ Quiescent => user.plan_generations_count = ledger.delivered

\* C28: across generate requests and tier changes made one after another
\* within one week, the plans delivered to the user while on the free tier
\* never exceed 3, and whenever the user is on the free tier the stored
\* counter is at most 3
C28_Claimed ==
    /\ ledger.delivered <= FreeLimit
    /\ UserTier(user) = "free_tier" => user.plan_generations_count <= FreeLimit

\* the last step was an export that reached the loop over the plan entries
Exported == last.op = "export_to_google_calendar" /\ last.r.status = 200

\* C29: after any sequence of exports of plans for the same dates the
\* calendar holds at most one event of the application per date
C29_Claimed ==
    \A e1 \in calendar : \A e2 \in calendar :
        e1.start[1] = e2.start[1] => e1 = e2

\* the names the application itself gives a rest entry
RestSentinels == {ExportNames.rest, ExportNames.rest_day}

\* C30: an export whose calendar writes all succeed leaves an event for
\* every plan entry that is not a rest entry, on the entry's date and with
\* the entry's activity as summary, and writes nothing for a rest entry
C30_Claimed ==
    (Exported /\ last.in.fail = {}) =>
        /\ \A d \in DOMAIN last.in.plan :
              last.in.plan[d].activity \notin RestSentinels =>
                  \E evt \in calendar :
                      evt.start[1] = d /\ evt.summary = last.in.plan[d].activity
        /\ last.r.created + last.r.updated =
              Cardinality({d \in DOMAIN last.in.plan :
                              last.in.plan[d].activity \notin RestSentinels})

====
